---- MODULE Spec2Model ----
(***************************************************************************)
(* Book recommendation on a bipartite user/book graph: the four            *)
(* similarity measures and the collaborative-filtering recommender         *)
(* (src/src/collaborative_filtering.py), the personalized-PageRank         *)
(* recommender (src/src/personalized_pagerank.py), the graph helpers       *)
(* (src/src/utils.py) and the evaluation harness (src/src/testing.py,      *)
(* driven by src/scripts/graph_test.py).                                   *)
(*                                                                         *)
(* Numbers.  A Python float is modelled as a binary floating-point number  *)
(* with a significand of FloatBits bits (a double has 53), rounded to      *)
(* nearest, ties to even, after every operation; the float x is held as    *)
(* the integer x * 2^FracBits.  Rounding makes a sum depend on the order   *)
(* of its terms, and Python iterates a set of strings in an order the hash *)
(* seed and the set's history decide: a function that sums over a set is   *)
(* modelled by the set of values it can return, one per iteration order.   *)
(* PageRank mass is held in fixed point, as x * PRScale.                   *)
(***************************************************************************)
EXTENDS Integers, Sequences, FiniteSets, TLC

\* ------------------------------------------------------------------ bounds
\* Direct calls of the recommenders and similarities: nodes of the graph.
CFUsers == 3
CFBooks == 3
WideBooks == 4
\* Largest top_n a direct call asks for (0 is asked for too).
MaxTopN == 2
\* Evaluation harness: nodes of the loaded graph.
HUsers == 2
HBooks == 5
\* Books of the graphs on which a masking fraction of 1/2 is tried.
HalfBooks == 4
\* A recommendation list length below the number of books, besides main's k.
SmallK == 1
\* Power-iteration steps of the PageRank model (networkx iterates to a
\* tolerance of 1e-6 per node, at most 100 times).
PRIters == 6
\* Significand bits of the float model.
FloatBits == 8

\* ------------------------------------------------------- program constants
\* graph_test.main: get_metrics_at_k(..., k=15); also the default of k.
DefaultK == 15
\* get_metrics_at_k(test_size=0.2), as the fraction 1/5.
DefaultTestSize == <<1, 5>>
\* get_recommendations_ppr(alpha=0.85), as the fraction 85/100.
AlphaNum == 85
AlphaDen == 100

PRScale == 1000 * 1000

\* --------------------------------------------------------------- the graph
\* A graph G is [bipartite |-> node -> partition tag, adj |-> set of edges];
\* an edge is the set of its two end nodes (nx.Graph is undirected).
User(i) == <<"u", i>>
Book(j) == <<"k", j>>

Nodes(G) == DOMAIN G.bipartite

neighbors(G, n) == {m \in Nodes(G) : {n, m} \in G.adj}

get_users_for_book(G, book) ==
    {n \in neighbors(G, book) : G.bipartite[n] = "users"}

get_books_for_user(G, user) ==
    {n \in neighbors(G, user) : G.bipartite[n] = "books"}

\* G.add_edge(u, v) on nodes that exist: idempotent, attributes untouched.
add_edge(G, u, v) == [G EXCEPT !.adj = @ \cup {{u, v}}]

\* G.remove_edge(u, v); the caller checks has_edge first (NetworkXError).
has_edge(G, u, v) == {u, v} \in G.adj
remove_edge(G, u, v) == [G EXCEPT !.adj = @ \ {{u, v}}]

\* ----------------------------------------------------------------- helpers
Min(a, b) == IF a <= b THEN a ELSE b

RECURSIVE SumOver(_, _)
\* Sum of f[x] over the finite set S.
SumOver(S, f) ==
    IF S = {} THEN 0
    ELSE LET x == CHOOSE y \in S : TRUE
         IN  f[x] + SumOver(S \ {x}, f)

RECURSIVE PermSeqs(_)
\* Every ordering of the finite set S, as a sequence.
PermSeqs(S) ==
    IF S = {} THEN {<<>>}
    ELSE UNION {{<<x>> \o p : p \in PermSeqs(S \ {x})} : x \in S}

RECURSIVE Samples(_, _)
\* Every sequence of n distinct elements of S (n <= |S|).
Samples(S, n) ==
    IF n <= 0 THEN {<<>>}
    ELSE UNION {{<<x>> \o p : p \in Samples(S \ {x}, n - 1)} : x \in S}

Range(s) == {s[i] : i \in 1..Len(s)}

\* ------------------------------------------------------------------ floats
\* The float x is the integer x * 2^FracBits; every value the program
\* computes is 0 or at least 1/16, so its last significand bit is on this
\* grid.
FracBits == FloatBits + 4

RECURSIVE BitLen(_)
BitLen(n) == IF n = 0 THEN 0 ELSE 1 + BitLen(n \div 2)

\* n rounded to FloatBits significant bits, to nearest, ties to even.
fl_round(n) ==
    LET e == BitLen(n) - FloatBits
    IN  IF e <= 0 THEN n
        ELSE LET d == 2 ^ e
                 q == n \div d
                 r == n % d
             IN  IF 2 * r > d \/ (2 * r = d /\ q % 2 = 1)
                 THEN (q + 1) * d ELSE q * d

\* a + b of two floats.
fl_add(a, b) == fl_round(a + b)

\* a / b of two counts (a >= 0, b > 0), as a float: the quotient with two
\* guard bits and a sticky bit, then rounded.
fl_div(a, b) ==
    LET n == a * (2 ^ FracBits) * 4
        m == 2 * (n \div b) + (IF n % b = 0 THEN 0 ELSE 1)
    IN  fl_round(m) \div 8

\* 1.0 / math.log(degree) for degree in 2..10: 2^24 / ln(degree) from a
\* table, rounded to a float.
inv_log(degree) ==
    LET table == <<24204406, 15271280, 12102203, 10424270, 9363543,
                   8621783, 8068135, 7635640, 7286252>>
    IN  fl_round(table[degree - 1]) \div (2 ^ (24 - FracBits))

RECURSIVE float_sums(_, _, _)
\* acc after "for x in S: acc += term[x]", for every order in which the set
\* S can be iterated.
float_sums(S, term, acc) ==
    IF S = {} THEN {acc}
    ELSE UNION {float_sums(S \ {x}, term, fl_add(acc, term[x])) : x \in S}

\* ------------------------------------------------------------ similarities
jaccard_similarity(users_b1, users_b2) ==
    IF users_b1 = {} /\ users_b2 = {} THEN 0
    ELSE fl_div(Cardinality(users_b1 \cap users_b2),
                Cardinality(users_b1 \cup users_b2))

overlap_coefficient(users_b1, users_b2) ==
    IF users_b1 = {} \/ users_b2 = {} THEN 0
    ELSE fl_div(Cardinality(users_b1 \cap users_b2),
                Min(Cardinality(users_b1), Cardinality(users_b2)))

\* Mutant: the degree test off by one (degree > 2).
adamic_adar_skipping_degree_2(users_b1, users_b2, books_cache) ==
    LET common_users == users_b1 \cap users_b2
        term == [user \in common_users |->
                    LET degree == Cardinality(books_cache[user])
                    IN  IF degree > 2 THEN inv_log(degree) ELSE 0]
    IN  IF common_users = {} THEN {0} ELSE float_sums(common_users, term, 0)

\* The values aa_sum can end with: a user of degree <= 1 adds nothing.
adamic_adar_similarity(users_b1, users_b2, books_cache) ==
    LET common_users == users_b1 \cap users_b2
        term == [user \in common_users |->
                    LET degree == Cardinality(books_cache[user])
                    IN  IF degree > 1 THEN inv_log(degree) ELSE 0]
    IN  IF common_users = {} THEN {0} ELSE float_sums(common_users, term, 0)

\* The values ra_sum can end with.
resource_allocation_similarity(users_b1, users_b2, books_cache) ==
    LET common_users == users_b1 \cap users_b2
        term == [user \in common_users |->
                    LET degree == Cardinality(books_cache[user])
                    IN  IF degree > 0 THEN fl_div(1, degree) ELSE 0]
    IN  IF common_users = {} THEN {0} ELSE float_sums(common_users, term, 0)

\* -------------------------------------------------------------- top-N pick
\* Index of the first item of the highest score (items is not empty).
FirstMax(items) ==
    CHOOSE i \in 1..Len(items) :
        /\ \A j \in 1..Len(items) : items[j][2] <= items[i][2]
        /\ \A j \in 1..(i - 1) : items[j][2] < items[i][2]

RemoveAt(items, i) ==
    SubSeq(items, 1, i - 1) \o SubSeq(items, i + 1, Len(items))

\* Mutant: the first n items as they come, unranked.
first_n_unranked(n, items) ==
    IF n <= 0 THEN <<>> ELSE SubSeq(items, 1, Min(n, Len(items)))

RECURSIVE nlargest(_, _)
\* heapq.nlargest(n, items, key=lambda x: x[1]): what
\* sorted(items, key=key, reverse=True)[:n] gives, so items of equal score
\* keep the order they came in.  An item is <<node, score>>.
nlargest(n, items) ==
    IF n <= 0 \/ items = <<>> THEN <<>>
    ELSE LET i == FirstMax(items)
         IN  <<items[i]>> \o nlargest(n - 1, RemoveAt(items, i))

\* ------------------------------------------------ collaborative filtering
\* A recommender call ends in
\*   [raised |-> "none", value |-> the list, scores |-> the scored items]
\* or in [raised |-> the exception, value |-> <<>>, scores |-> {}], scores
\* being the <<node, score>> pairs nlargest chose from.  A call has one
\* possible outcome per iteration order of the sets it loops over: a
\* recommender is modelled by the set of its possible outcomes.
Returned(list, scored) == [raised |-> "none", value |-> list, scores |-> scored]
Raised(exc) == [raised |-> exc, value |-> <<>>, scores |-> {}]

users_cache(G) ==
    [node \in {n \in Nodes(G) : G.bipartite[n] = "books"} |->
        get_users_for_book(G, node)]

books_cache(G) ==
    [node \in {n \in Nodes(G) : G.bipartite[n] = "users"} |->
        get_books_for_user(G, node)]

\* Mutant: an unknown name falls back to the default method.
resolve_method_defaulting(method) ==
    IF method \in {"overlap", "adamic_adar", "resource_allocation"}
    THEN method ELSE "jaccard"

\* The if/elif chain on the method name; its else branch raises.
resolve_method(method) ==
    IF method = "jaccard" THEN "jaccard"
    ELSE IF method = "overlap" THEN "overlap"
    ELSE IF method = "adamic_adar" THEN "adamic_adar"
    ELSE IF method = "resource_allocation" THEN "resource_allocation"
    ELSE "ValueError"

\* The lambda the chain binds to similarity_func, applied to (b1, b2): the
\* values the call can return.
similarity_func(G, resolved, b1, b2) ==
    CASE resolved = "jaccard" ->
            {jaccard_similarity(users_cache(G)[b1], users_cache(G)[b2])}
      [] resolved = "overlap" ->
            {overlap_coefficient(users_cache(G)[b1], users_cache(G)[b2])}
      [] resolved = "adamic_adar" ->
            adamic_adar_similarity(users_cache(G)[b1], users_cache(G)[b2],
                                   books_cache(G))
      [] resolved = "resource_allocation" ->
            resource_allocation_similarity(users_cache(G)[b1],
                                           users_cache(G)[b2], books_cache(G))

read_books_of(G, target_user) ==
    {n \in neighbors(G, target_user) : G.bipartite[n] = "books"}

\* Mutant: the co-readers of one read book only.
candidate_books_of_one_read_book(G, target_user) ==
    LET read_books == read_books_of(G, target_user)
        b == CHOOSE x \in read_books : TRUE
    IN  IF read_books = {} THEN {}
        ELSE UNION {books_cache(G)[u] :
                        u \in users_cache(G)[b] \ {target_user}} \ read_books

\* Books of the co-readers of the read books, minus the read books.
candidate_books(G, target_user) ==
    LET read_books == read_books_of(G, target_user)
        collected ==
            UNION {UNION {books_cache(G)[u] :
                            u \in users_cache(G)[b] \ {target_user}} :
                   b \in read_books}
    IN  collected \ read_books

RECURSIVE score_along(_, _, _)
\* score after "for b in read_books: score += similarity_func(b, candidate)",
\* read_books being iterated in the given order and sims[b] being the values
\* the similarity of b to the candidate can take.
score_along(order, sims, score) ==
    IF order = <<>> THEN {score}
    ELSE UNION {score_along(Tail(order), sims, fl_add(score, sim)) :
                sim \in sims[Head(order)]}

\* The values score can end with for one candidate, read_books being
\* iterated in the given order.
aggregate_score(G, resolved, order, candidate) ==
    score_along(order,
                [b \in Range(order) |->
                    similarity_func(G, resolved, b, candidate)],
                0)

RECURSIVE scored_in_order(_, _)
\* Every sequence of <<candidate, score>> over the candidates in the given
\* order, scores[c] being the values the score of c can take.
scored_in_order(order, scores) ==
    IF order = <<>> THEN {<<>>}
    ELSE {<<<<Head(order), score>>>> \o rest :
            score \in scores[Head(order)],
            rest \in scored_in_order(Tail(order), scores)}

\* candidate_scores.items(): the candidates of positive score, in the order
\* the loop over candidate_books met them.  Every such sequence: one
\* iteration order of read_books and one of candidate_books per call.
candidate_scores(G, resolved, target_user) ==
    LET candidates == candidate_books(G, target_user)
        scored_for(read_order) ==
            LET scores == [c \in candidates |->
                              aggregate_score(G, resolved, read_order, c)]
            IN  UNION {scored_in_order(order, scores) :
                        order \in PermSeqs(candidates)}
    IN  {SelectSeq(scored, LAMBDA x : x[2] > 0) :
            scored \in UNION {scored_for(read_order) :
                        read_order \in PermSeqs(read_books_of(G, target_user))}}

get_recommendations_cf(G, target_user, method, top_n) ==
    LET resolved == resolve_method(method)
    IN  IF resolved = "ValueError" THEN {Raised("ValueError")}
        ELSE {Returned(nlargest(top_n, items), Range(items)) :
              items \in candidate_scores(G, resolved, target_user)}

\* ---------------------------------------------------- personalized PageRank
\* nx.pagerank(G, alpha, personalization): power iteration from the uniform
\* vector; a dangling node's mass goes to the personalization vector.
\* Mass is in units of 1/PRScale and each product is truncated.
pagerank_step(G, personalization, x) ==
    LET deg(m) == Cardinality(neighbors(G, m))
        dangling == {m \in Nodes(G) : deg(m) = 0}
        dsum == SumOver(dangling, x)
        total == SumOver(DOMAIN personalization, personalization)
        \* p[n] = weight / total: the normalized personalization vector
        weight(n) == IF n \in DOMAIN personalization
                     THEN personalization[n] ELSE 0
    IN  [n \in Nodes(G) |->
            LET share == [m \in neighbors(G, n) |-> x[m] \div deg(m)]
                inflow == SumOver(neighbors(G, n), share)
            IN  (AlphaNum * (inflow + (dsum * weight(n)) \div total)
                 + ((AlphaDen - AlphaNum) * PRScale * weight(n)) \div total)
                \div AlphaDen]

RECURSIVE pagerank_iter(_, _, _, _)
pagerank_iter(G, personalization, x, iters) ==
    IF iters = 0 THEN x
    ELSE LET next == pagerank_step(G, personalization, x)
         IN  \* a fixed point ends the iteration
             IF next = x THEN x
             ELSE pagerank_iter(G, personalization, next, iters - 1)

pagerank(G, personalization) ==
    pagerank_iter(G, personalization,
                  [n \in Nodes(G) |-> PRScale \div Cardinality(Nodes(G))],
                  PRIters)

\* Mutant: the read books are not filtered out.
ppr_candidates_with_read_books(G, target_user) ==
    {node \in Nodes(G) : G.bipartite[node] = "books"}

\* Mutant: the filter keeps the other partition.
ppr_candidates_of_wrong_partition(G, target_user) ==
    {node \in Nodes(G) :
        /\ G.bipartite[node] = "users"
        /\ node \notin read_books_of(G, target_user)}

\* The generator over pr_scores.items(): nodes tagged "books" that the
\* target user has not read.
ppr_candidates(G, target_user) ==
    {node \in Nodes(G) :
        /\ G.bipartite[node] = "books"
        /\ node \notin read_books_of(G, target_user)}

\* pr_scores.items() follows the graph's node order, which the pickled
\* graph fixes: one outcome per order of the candidates.
get_recommendations_ppr(G, target_user, top_n) ==
    LET pr_scores == pagerank(G, [n \in {target_user} |-> 1])
        candidates == ppr_candidates(G, target_user)
    IN  {Returned(nlargest(top_n,
                [i \in 1..Len(order) |-> <<order[i], pr_scores[order[i]]>>]),
                {<<node, pr_scores[node]>> : node \in candidates}) :
         order \in PermSeqs(candidates)}

\* ----------------------------------------------------------- the selector
\* get_recommendations_func(method): the PageRank recommender, or a lambda
\* that carries the method name to get_recommendations_cf.
get_recommendations_func(method) ==
    IF method = "pagerank" THEN [fn |-> "ppr", method |-> method]
    ELSE [fn |-> "cf", method |-> method]

\* get_recommendations(G, target_user, top_n) for a selected recommender.
call_recommender(get_recommendations, G, target_user, top_n) ==
    IF get_recommendations.fn = "ppr"
    THEN get_recommendations_ppr(G, target_user, top_n)
    ELSE get_recommendations_cf(G, target_user, get_recommendations.method,
                                top_n)

\* ------------------------------------------------------------------- state
VARIABLES
    G,                   \* the graph object every function is handed
    pc,                  \* where the running program is
    args, ret,           \* a direct call: its arguments, what it ended in
    methods_i,           \* main: index of the method under evaluation
    get_recommendations, \* main: the recommender selected for that method
    test_users,          \* main: random.sample(all_users, k=n_users_to_test)
    k, test_size,        \* get_metrics_at_k: list length, masking fraction
    users_i, log,        \* get_metrics_at_k: loop position, records so far
    test_books,          \* get_metrics_for_user: books of the test user
    random_sample,       \*   the held-out books, in removal order
    mask_i,              \*   position of the removal loop
    recommended_books,   \*   the books the recommender returned
    to_add,              \*   recommended books the add loop has yet to visit
    error,               \* the exception that ended the program, or "none"
    loaded,              \* history: the graph as main loaded it
    before               \* history: the graph when the current trial began
                         \*   (between trials: the graph as it is)

vars == <<G, pc, args, ret, methods_i, get_recommendations, test_users, k,
          test_size, users_i, log, test_books, random_sample, mask_i,
          recommended_books, to_add, error, loaded, before>>

harness_vars == <<methods_i, get_recommendations, test_users, k, test_size,
                  users_i, log, test_books, random_sample, mask_i,
                  recommended_books, to_add, error, loaded, before>>

\* Every graph on the given users and books whose edges join a user and a
\* book: what create_bipartite_from_pkl hands over.
BipartiteGraphs(n_users, n_books) ==
    LET users == {User(i) : i \in 1..n_users}
        books == {Book(j) : j \in 1..n_books}
        tag == [n \in users \cup books |->
                    IF n \in users THEN "users" ELSE "books"]
    IN  {[bipartite |-> tag, adj |-> {{e[1], e[2]} : e \in es}] :
            es \in SUBSET (users \X books)}

UsersOf(g) == {n \in Nodes(g) : g.bipartite[n] = "users"}
BooksOf(g) == {n \in Nodes(g) : g.bipartite[n] = "books"}

SimilarityMethods == {"jaccard", "overlap", "adamic_adar", "resource_allocation"}
\* graph_test.main: the methods, in evaluation order.
methods ==
    <<"jaccard", "overlap", "adamic_adar", "resource_allocation", "pagerank">>
\* Method names a caller may pass: the five known ones and an unknown one.
MethodNames == Range(methods) \cup {"cosine"}

NoRecommender == [fn |-> "none", method |-> "none"]
NoArgs == [op |-> "none", target_user |-> <<>>, method |-> "none",
           top_n |-> 0, b1 |-> <<>>, b2 |-> <<>>]
NoRet == [raised |-> "pending", value |-> <<>>, scores |-> {}]

\* ------------------------------------------------------------ direct calls
\* One call of a recommender or of a similarity on a graph, with arguments
\* drawn from the bounded sets.
RecommenderCalls(users) ==
    {[op |-> op, target_user |-> u, method |-> m, top_n |-> n,
      b1 |-> <<>>, b2 |-> <<>>] :
        op \in {"get_recommendations_cf", "get_recommendations_func"},
        u \in users, m \in MethodNames, n \in 0..MaxTopN}

SimilarityCalls(g) ==
    {[op |-> "similarity", target_user |-> <<>>, method |-> m, top_n |-> 0,
      b1 |-> x, b2 |-> y] :
        m \in SimilarityMethods, x \in BooksOf(g), y \in BooksOf(g)}

\* Every call on every graph of CFUsers users and CFBooks books, and the
\* recommender calls on the graphs of WideBooks books, where a user can have
\* read three books and still have a candidate; on these the target user is
\* u1, every other call being one of these with the users renamed.
InitCF ==
    /\ \/ /\ G \in BipartiteGraphs(CFUsers, CFBooks)
          /\ args \in RecommenderCalls(UsersOf(G)) \cup SimilarityCalls(G)
       \/ /\ G \in BipartiteGraphs(CFUsers, WideBooks)
          /\ args \in RecommenderCalls({User(1)})
    /\ pc = "call"
    /\ ret = NoRet
    /\ methods_i = 0 /\ get_recommendations = NoRecommender
    /\ test_users = <<>> /\ k = 0 /\ test_size = <<0, 1>>
    /\ users_i = 0 /\ log = <<>> /\ test_books = {} /\ random_sample = <<>>
    /\ mask_i = 0 /\ recommended_books = {} /\ to_add = {} /\ error = "none"
    /\ loaded = G /\ before = G

\* get_recommendations_cf(G, target_user, method, top_n), called directly.
CallCF ==
    /\ pc = "call" /\ args.op = "get_recommendations_cf"
    /\ ret' \in get_recommendations_cf(G, args.target_user, args.method,
                                      args.top_n)
    /\ pc' = "returned"
    /\ UNCHANGED <<G, args, harness_vars>>

\* get_recommendations_func(method)(G, target_user, top_n).
CallSelected ==
    /\ pc = "call" /\ args.op = "get_recommendations_func"
    /\ ret' \in call_recommender(get_recommendations_func(args.method), G,
                                args.target_user, args.top_n)
    /\ pc' = "returned"
    /\ UNCHANGED <<G, args, harness_vars>>

\* One of the four similarities on two books of the graph, over the caches
\* get_recommendations_cf builds.
CallSimilarity ==
    /\ pc = "call" /\ args.op = "similarity"
    /\ \E sim \in similarity_func(G, resolve_method(args.method),
                                  args.b1, args.b2) :
         ret' = Returned(sim, {})
    /\ pc' = "returned"
    /\ UNCHANGED <<G, args, harness_vars>>

NextCF == CallCF \/ CallSelected \/ CallSimilarity

SpecCF == InitCF /\ [][NextCF]_vars

\* ------------------------------------------------- the evaluation harness
HalfTestSize == <<1, 2>>

\* int(len(test_books) * test_size), test_size being the fraction num/den.
sample_size(n_books, fraction) == (n_books * fraction[1]) \div fraction[2]

\* Mutant: drawing with replacement (random.choices).
random_choices(books, size) ==
    IF books = {} THEN {<<>>} ELSE [1..size -> books]

\* random.sample(sorted(test_books), k=size): every sequence of size distinct
\* books can come out.
random_samples(books, size) == Samples(books, size)

\* The inputs of a harness run: the masking fraction and the number of
\* books of the graph it is tried on.  With main's default of 1/5 a user
\* needs five books for one to be held out; 1/2 holds out up to two books
\* of a smaller graph.
HarnessInputs ==
    {[test_size |-> DefaultTestSize, n_books |-> HBooks],
     [test_size |-> HalfTestSize, n_books |-> HalfBooks]}

\* graph_test.main has loaded the graph and drawn the test users; the
\* harness is entered with k and test_size of the caller's choice, main's
\* being k=15 and the default test_size.
Init ==
    /\ \E input \in HarnessInputs :
         /\ G \in BipartiteGraphs(HUsers, input.n_books)
         /\ test_size = input.test_size
    /\ \E n \in 1..HUsers : test_users \in Samples(UsersOf(G), n)
    /\ k \in {DefaultK, SmallK}
    /\ pc = "main"
    /\ methods_i = 1
    /\ get_recommendations = NoRecommender
    /\ users_i = 0 /\ log = <<>> /\ test_books = {} /\ random_sample = <<>>
    /\ mask_i = 0 /\ recommended_books = {} /\ to_add = {} /\ error = "none"
    /\ loaded = G /\ before = G
    /\ args = NoArgs /\ ret = NoRet

\* main: for method in methods: select the recommender, enter
\* get_metrics_at_k (log = []).
MainNextMethod ==
    /\ pc = "main" /\ methods_i <= Len(methods)
    /\ get_recommendations' = get_recommendations_func(methods[methods_i])
    /\ log' = <<>>
    /\ users_i' = 1
    /\ pc' = "at_k"
    /\ UNCHANGED <<G, args, ret, methods_i, test_users, k, test_size,
                   test_books, random_sample, mask_i, recommended_books, to_add,
                   error, loaded, before>>

\* main: every method is done; the output is saved.
MainDone ==
    /\ pc = "main" /\ methods_i > Len(methods)
    /\ pc' = "done"
    /\ UNCHANGED <<G, args, ret, harness_vars>>

\* get_metrics_at_k: the loop is over, the log goes back to main, which goes
\* on to the next method.
AtKReturn ==
    /\ pc = "at_k" /\ users_i > Len(test_users)
    /\ methods_i' = methods_i + 1
    /\ pc' = "main"
    /\ UNCHANGED <<G, args, ret, get_recommendations, test_users, k,
                   test_size, users_i, log, test_books, random_sample, mask_i,
                   recommended_books, to_add, error, loaded, before>>

\* get_metrics_for_user, entered for the next test user: test_books and
\* random_sample.
TrialBegin ==
    /\ pc = "at_k" /\ users_i <= Len(test_users)
    /\ LET books == get_books_for_user(G, test_users[users_i])
       IN  /\ test_books' = books
           /\ random_sample' \in
                random_samples(books, sample_size(Cardinality(books), test_size))
    /\ mask_i' = 1
    /\ before' = G
    /\ recommended_books' = {}
    /\ to_add' = {}
    /\ pc' = "mask"
    /\ UNCHANGED <<G, args, ret, methods_i, get_recommendations, test_users,
                   k, test_size, users_i, log, error, loaded>>

\* for book in random_sample: graph.remove_edge(test_user, book)
\* (networkx raises NetworkXError when the edge is not there).
MaskEdge ==
    /\ pc = "mask" /\ mask_i <= Len(random_sample)
    /\ LET test_user == test_users[users_i]
           book == random_sample[mask_i]
       IN  IF has_edge(G, test_user, book)
           THEN /\ G' = remove_edge(G, test_user, book)
                /\ mask_i' = mask_i + 1
                /\ UNCHANGED <<pc, error>>
           ELSE /\ pc' = "raised"
                /\ error' = "NetworkXError"
                /\ UNCHANGED <<G, mask_i>>
    /\ UNCHANGED <<args, ret, methods_i, get_recommendations, test_users, k,
                   test_size, users_i, log, test_books, random_sample,
                   recommended_books, to_add, loaded, before>>

\* The recommender is about to be called: the removal loop is over.
AtRecommenderCall == pc = "mask" /\ mask_i > Len(random_sample)

\* recommendations = get_recommendations(graph, test_user, top_n=k);
\* recommended_books = set(r[0] for r in recommendations)
Recommend ==
    /\ AtRecommenderCall
    /\ \E outcome \in call_recommender(get_recommendations, G,
                                       test_users[users_i], k) :
         IF outcome.raised = "none"
         THEN /\ recommended_books' = {r[1] : r \in Range(outcome.value)}
              /\ to_add' = {r[1] : r \in Range(outcome.value)}
              /\ pc' = "restore"
              /\ error' = error
         ELSE /\ pc' = "raised"
              /\ error' = outcome.raised
              /\ UNCHANGED <<recommended_books, to_add>>
    /\ UNCHANGED <<G, args, ret, methods_i, get_recommendations, test_users,
                   k, test_size, users_i, log, test_books, random_sample,
                   mask_i, loaded, before>>

\* for book in recommended_books: graph.add_edge(test_user, book), the set
\* being visited in any order.
RestoreEdge ==
    /\ pc = "restore" /\ to_add # {}
    /\ \E book \in to_add :
         /\ G' = add_edge(G, test_users[users_i], book)
         /\ to_add' = to_add \ {book}
    /\ UNCHANGED <<pc, args, ret, methods_i, get_recommendations, test_users,
                   k, test_size, users_i, log, test_books, random_sample,
                   mask_i, recommended_books, error, loaded, before>>

\* The dict get_metrics_for_user returns; a fraction is <<numerator,
\* denominator>>.  execution_time is left out.
metrics(test_user, recommended, books, n, sample) ==
    LET hits == Cardinality(recommended \cap books)
    IN  [user |-> test_user,
         precision |-> <<hits, n>>,
         recall |-> <<hits, Len(sample)>>]

\* The return statement: the two divisions raise ZeroDivisionError on a zero
\* denominator, which ends get_metrics_at_k and main; otherwise the record
\* is appended to the log and the loop goes on.
TrialReturn ==
    /\ pc = "restore" /\ to_add = {}
    /\ IF k = 0 \/ Len(random_sample) = 0
       THEN /\ pc' = "raised"
            /\ error' = "ZeroDivisionError"
            /\ UNCHANGED <<log, users_i, test_books, random_sample, mask_i,
                           recommended_books, before>>
       ELSE /\ log' = Append(log,
                        metrics(test_users[users_i], recommended_books,
                                test_books, k, random_sample))
            /\ users_i' = users_i + 1
            /\ pc' = "at_k"
            /\ error' = error
            \* the call's locals are gone
            /\ test_books' = {} /\ random_sample' = <<>> /\ mask_i' = 0
            /\ recommended_books' = {} /\ before' = G
    /\ UNCHANGED <<G, args, ret, methods_i, get_recommendations, test_users,
                   k, test_size, to_add, loaded>>

Next ==
    \/ MainNextMethod
    \/ MainDone
    \/ AtKReturn
    \/ TrialBegin
    \/ MaskEdge
    \/ Recommend
    \/ RestoreEdge
    \/ TrialReturn

Spec == Init /\ [][Next]_vars

\* ================================================================== claims
\* --------------------------------------------------------- shared notions
\* A direct recommender call that has ended.
RecommenderReturned ==
    /\ pc = "returned"
    /\ args.op \in {"get_recommendations_cf", "get_recommendations_func"}

\* ... made with one of the four similarity methods.
SimilarityCallReturned ==
    RecommenderReturned /\ args.method \in SimilarityMethods

\* ... made with one of the five methods through the engine that serves it.
KnownCallReturned ==
    \/ SimilarityCallReturned
    \/ /\ RecommenderReturned
       /\ args.op = "get_recommendations_func"
       /\ args.method = "pagerank"

\* The users that have an edge to book b, and the books user u has an edge
\* to, read off the edge set.
ReadersOf(b) == {u \in UsersOf(G) : {u, b} \in G.adj}
ReadBy(u) == {b \in BooksOf(G) : {u, b} \in G.adj}

\* The values the aggregate score of book c for user u can take: the sum,
\* over the books u reads taken in some order, of the method's similarity to
\* c, rounded after every addition.
ProfileScores(method, u, c) ==
    UNION {score_along(order,
                       [b \in ReadBy(u) |-> similarity_func(G, method, b, c)],
                       0) :
           order \in PermSeqs(ReadBy(u))}

\* The unread books whose aggregate score is positive.
PositiveUnread(method, u) ==
    {c \in BooksOf(G) \ ReadBy(u) :
        \E score \in ProfileScores(method, u, c) : score > 0}

ListItems(list) == {list[i][1] : i \in 1..Len(list)}

\* The test user of the trial in progress.
TestUser == test_users[users_i]
InTrial == pc \in {"mask", "restore"}
\* The trial is at its return statement and the statement returns.
TrialReturns ==
    pc = "restore" /\ to_add = {} /\ k # 0 /\ Len(random_sample) # 0
HeldOutEdges == {{TestUser, h} : h \in Range(random_sample)}

\* --------------------------------------------------------------------- C1
\* C1: when a trial returns, every edge that was in the graph before the
\* trial is in it, and every edge that was not joins the test user and a
\* recommended book.
C1_EdgesBeforeAreEdgesAfter ==
    TrialReturns =>
        /\ before.adj \subseteq G.adj
        /\ \A e \in G.adj \ before.adj :
              \E b \in recommended_books : e = {TestUser, b}

\* --------------------------------------------------------------------- C2
\* C2: in a run of graph_test.main (k = 15, test_size = 0.2) every trial,
\* of every method and every test user, starts on the loaded graph's edges.
C2_TrialStartsOnLoadedGraph ==
    (/\ k = DefaultK /\ test_size = DefaultTestSize
     /\ pc = "at_k" /\ users_i <= Len(test_users))
        => G.adj = loaded.adj

\* --------------------------------------------------------------------- C3
\* C3: a trial whose held-out set is empty does not end the batch in a
\* ZeroDivisionError (its record is logged with recall undefined and the
\* loop goes on).
C3_EmptyHeldOutIsRecorded ==
    (InTrial \/ pc = "raised") /\ Len(random_sample) = 0
        => error # "ZeroDivisionError"

\* --------------------------------------------------------------------- C4
\* C4: a recommender call with a method name that is none of the five, made
\* directly or through get_recommendations_func, ends in the unknown-method
\* ValueError and hands back no list.
C4_UnknownMethodRaises ==
    RecommenderReturned /\ args.method \notin Range(methods)
        => ret.raised = "ValueError" /\ ret.value = <<>>

C4_Witness ==
    /\ RecommenderReturned
    /\ args.op = "get_recommendations_func"
    /\ args.method = "cosine"
    /\ ReadBy(args.target_user) # {}
    /\ ret.raised = "ValueError"

\* --------------------------------------------------------------------- C5
\* C5: a call with one of the five methods returns a list of book nodes,
\* none of them read by the target user, none twice, at most top_n long; a
\* user without read books gets the empty list from the similarity methods.
C5_ListIsUnreadBooksAtMostTopN ==
    KnownCallReturned =>
        /\ ret.raised = "none"
        /\ \A i \in 1..Len(ret.value) :
              /\ G.bipartite[ret.value[i][1]] = "books"
              /\ {args.target_user, ret.value[i][1]} \notin G.adj
        /\ Cardinality(ListItems(ret.value)) = Len(ret.value)
        /\ Len(ret.value) <= args.top_n
        /\ (args.method \in SimilarityMethods /\ ReadBy(args.target_user) = {}
              => ret.value = <<>>)

C5_Witness ==
    /\ KnownCallReturned
    /\ args.method = "pagerank"
    /\ ReadBy(args.target_user) # {}
    /\ Len(ret.value) = MaxTopN
    /\ Cardinality(BooksOf(G) \ ReadBy(args.target_user)) > MaxTopN - 1

\* --------------------------------------------------------------------- C6
\* C6: in every trial the held-out books are distinct books of the test
\* user, floor(|T| * test_size) of them; no removal fails; and when the
\* recommender is called the graph is the graph before the trial without
\* exactly the held-out edges.
C6_MaskIsExactlyTheHeldOutEdges ==
    /\ error # "NetworkXError"
    /\ InTrial =>
        /\ test_books = {b \in BooksOf(before) : {TestUser, b} \in before.adj}
        /\ Range(random_sample) \subseteq test_books
        /\ Cardinality(Range(random_sample)) = Len(random_sample)
        /\ Len(random_sample) * test_size[2]
              <= Cardinality(test_books) * test_size[1]
        /\ Cardinality(test_books) * test_size[1]
              < (Len(random_sample) + 1) * test_size[2]
    /\ AtRecommenderCall =>
        /\ G.adj = before.adj \ HeldOutEdges
        /\ HeldOutEdges \subseteq before.adj
        /\ G.bipartite = before.bipartite

C6_Witness ==
    /\ AtRecommenderCall
    /\ Len(random_sample) = 2
    /\ Cardinality(G.adj) + 2 = Cardinality(before.adj)

\* --------------------------------------------------------------------- C7
\* Book b1 and book b2 have no reader in common.
NoCommonReader == ReadersOf(args.b1) \cap ReadersOf(args.b2) = {}

\* The readers of both books.
CommonReaders == ReadersOf(args.b1) \cap ReadersOf(args.b2)

\* A sum of one or two terms does not depend on their order.
OrderFree ==
    \/ args.method \in {"jaccard", "overlap"}
    \/ Cardinality(CommonReaders) <= 2

\* C7 as stated: on every pair of books, distinct or not, each of the four
\* similarities is >= 0, is 0 exactly when the two books have no reader in
\* common, and is the same for (b1, b2) and (b2, b1).
C7_ZeroIffNoCommonReader ==
    pc = "returned" /\ args.op = "similarity" =>
        /\ ret.value >= 0
        /\ (ret.value = 0 <=> NoCommonReader)
        /\ similarity_func(G, args.method, args.b2, args.b1) = {ret.value}

\* C7 amended: each of the four similarities is >= 0; it is 0 exactly when
\* the two books have no reader in common, except that the Adamic-Adar
\* similarity of a book to itself is 0 exactly when none of its readers
\* reads a second book; Jaccard and overlap return the same value for
\* (b1, b2) and (b2, b1), and so do Adamic-Adar and resource allocation
\* when the books have at most two readers in common; with more, the two
\* calls add the same terms, in orders that may differ.
C7_ZeroIffNoCommonReaderOfDegree2 ==
    pc = "returned" /\ args.op = "similarity" =>
        /\ ret.value >= 0
        /\ IF args.method = "adamic_adar" /\ args.b1 = args.b2
           THEN ret.value = 0 <=>
                    \A u \in ReadersOf(args.b1) : Cardinality(ReadBy(u)) <= 1
           ELSE ret.value = 0 <=> NoCommonReader
        /\ ret.value \in similarity_func(G, args.method, args.b2, args.b1)
        /\ (OrderFree =>
              similarity_func(G, args.method, args.b2, args.b1) = {ret.value})

C7_Witness ==
    /\ pc = "returned" /\ args.op = "similarity"
    /\ args.method = "adamic_adar"
    /\ args.b1 # args.b2
    /\ Cardinality(CommonReaders) = 3
    /\ ret.value > 0
    /\ \E other \in similarity_func(G, args.method, args.b2, args.b1) :
          other # ret.value

\* --------------------------------------------------------------------- C8
\* C8: with a similarity method the list is a top-N of the positively
\* scored candidates: each listed score is the sum over the read books of
\* the similarity to the item (the float sum, in the order the call
\* iterated them) and is > 0, scores do not increase along the list, the
\* length is min(top_n, number of candidates of positive aggregate score),
\* and no candidate left out was scored more than a listed one.
C8_ListIsTopNOfPositiveCandidates ==
    SimilarityCallReturned =>
        LET u == args.target_user
            list == ret.value
            positive == {c \in candidate_books(G, u) :
                            \E score \in ProfileScores(args.method, u, c) :
                                score > 0}
        IN  /\ ret.raised = "none"
            /\ {x[1] : x \in ret.scores} = positive
            /\ Cardinality(ret.scores) = Cardinality(positive)
            /\ \A x \in ret.scores :
                  x[2] \in ProfileScores(args.method, u, x[1]) /\ x[2] > 0
            /\ \A i \in 1..Len(list) : list[i] \in ret.scores
            /\ \A i \in 1..(Len(list) - 1) : list[i][2] >= list[i + 1][2]
            /\ Len(list) = Min(args.top_n, Cardinality(positive))
            /\ Cardinality(ListItems(list)) = Len(list)
            /\ \A x \in ret.scores :
                  x[1] \notin ListItems(list) =>
                      \A i \in 1..Len(list) : x[2] <= list[i][2]

C8_Witness ==
    /\ SimilarityCallReturned
    /\ args.top_n = 1
    /\ Len(ret.value) = 1
    /\ Cardinality(ReadBy(args.target_user)) > 1
    /\ \E x \in ret.scores : x[2] < ret.value[1][2]

\* --------------------------------------------------------------------- C9
\* C9: throughout a harness run every edge joins a node tagged "users" and
\* a node tagged "books", and every node keeps the tag it was loaded with.
C9_GraphStaysBipartite ==
    /\ \A e \in G.adj :
          \E a \in Nodes(G), b \in Nodes(G) :
              /\ e = {a, b}
              /\ G.bipartite[a] = "users"
              /\ G.bipartite[b] = "books"
    /\ G.bipartite = loaded.bipartite

C9_Witness ==
    /\ pc = "restore"
    /\ random_sample # <<>>
    /\ \E e \in G.adj : e \notin before.adj
    /\ \E e \in before.adj : e \notin G.adj

\* -------------------------------------------------------------------- C10
\* C10: with a similarity method, every unread book outside the candidate
\* set has aggregate similarity 0 to the read books, so the candidates of
\* positive score are all the unread books of positive score, and a list
\* long enough to hold them all holds exactly them.
C10_CandidateSetLosesNothing ==
    SimilarityCallReturned =>
        LET u == args.target_user
            unread == BooksOf(G) \ ReadBy(u)
        IN  /\ \A b \in unread \ candidate_books(G, u) :
                  ProfileScores(args.method, u, b) = {0}
            /\ {x[1] : x \in ret.scores} = PositiveUnread(args.method, u)
            /\ (Cardinality(PositiveUnread(args.method, u)) <= args.top_n
                  => ListItems(ret.value) = PositiveUnread(args.method, u))

C10_Witness ==
    /\ SimilarityCallReturned
    /\ ret.value # <<>>
    /\ Cardinality(PositiveUnread(args.method, args.target_user)) <= args.top_n
    /\ \E b \in BooksOf(G) \ ReadBy(args.target_user) :
          /\ b \notin candidate_books(G, args.target_user)
          /\ ReadersOf(b) # {}

====
